---- MODULE Spec2Model ----
(***************************************************************************)
(* Model of spongeworld_calour.py: the SpongeWorld calour database plugin. *)
(*                                                                         *)
(* Python values are modelled as follows.                                  *)
(*   - str            : a TLA+ string, built with \o; a str that the code  *)
(*                      case-converts is a sequence of one-character       *)
(*                      strings, so that lower()/upper() act per character *)
(*   - int            : an integer                                         *)
(*   - None           : PyNone; an int that may be None is PyInt(n)        *)
(*   - float          : an exact rational [num, den] (never normalised),   *)
(*                      compared by cross multiplication                   *)
(*   - dict           : the top-level payload is a record whose DOMAIN is  *)
(*                      the set of keys present; the nested dicts are      *)
(*                      sequences of <<key, value>> in iteration order     *)
(*   - raise          : the name of the exception in exc                   *)
(***************************************************************************)
EXTENDS Integers, Sequences, FiniteSets, TLC

VARIABLES
    environ,        \* os.environ['SPONGEWORLD_SERVER_TYPE'], or Unset
    self,           \* the SpongeWorld object, NoObject before/without construction
    pc,             \* position of the calling program
    op,             \* the operation called last
    info,           \* the payload handed to get_annotation_string
    pval,           \* the threshold handed to get_annotation_string
    keep,           \* get_annotation_string's sorted keep list
    desc,           \* the value returned by the last operation
    exc,            \* the exception raised by the last operation, or NoExc
    http,           \* the last HTTP exchange
    browser         \* the last address handed to webbrowser.open

vars == <<environ, self, pc, op, info, pval, keep, desc, exc, http, browser>>

-----------------------------------------------------------------------------
(* Bounds of the model *)

MaxPairs == 2       \* (field, value) pairs in a payload
MaxTotal == 3       \* total_samples of the database

-----------------------------------------------------------------------------
(* Python values *)

PyNone == [type |-> "NoneType"]
PyInt(n) == [type |-> "int", val |-> n]
NoExc == "none"
Unset == <<"<unset>">>
NoObject == [constructed |-> FALSE]
NoInfo == [absent |-> TRUE]
NoHttp == [sent |-> FALSE]
NoBrowser == "<none>"
NoOp == "<none>"

Rat(n, d) == [num |-> n, den |-> d]
RatLE(a, b) == a.num * b.den <= b.num * a.den
RatLT(a, b) == a.num * b.den < b.num * a.den
RatEQ(a, b) == a.num * b.den = b.num * a.den

RECURSIVE Pow(_, _)
Pow(b, e) == IF e = 0 THEN 1 ELSE b * Pow(b, e - 1)

RECURSIVE Choose(_, _)
Choose(n, k) ==
    IF k < 0 \/ k > n THEN 0
    ELSE IF k = 0 THEN 1
    ELSE (Choose(n - 1, k - 1) * n) \div k

-----------------------------------------------------------------------------
(* Formatting *)

Digit(m, k) == ToString((m \div Pow(10, k)) % 10)

\* '%f' % (n / d): six decimals, round half to even
FormatF(n, d) ==
    LET q == (n * 1000000) \div d
        r == (n * 1000000) % d
        m == IF 2 * r > d \/ (2 * r = d /\ q % 2 = 1) THEN q + 1 ELSE q
    IN  ToString(m \div 1000000) \o "." \o Digit(m, 5) \o Digit(m, 4)
            \o Digit(m, 3) \o Digit(m, 2) \o Digit(m, 1) \o Digit(m, 0)

\* '%s:%s (%d/%d)' % (cfield, cval, observed_val_samples, total_val_samples)
FormatDesc(cfield, cval, observed, total) ==
    cfield \o ":" \o cval \o " (" \o ToString(observed) \o "/" \o ToString(total) \o ")"

\* the header with its two counts in the other order
FormatHeaderSwapped(total_observed, total_samples) ==
    "Found in " \o FormatF(total_observed, total_samples) \o " samples ("
        \o ToString(total_samples) \o " / " \o ToString(total_observed) \o ")"

\* 'Found in %f samples (%d / %d)' % (total_observed / total_samples, total_observed, total_samples)
FormatHeader(total_observed, total_samples) ==
    "Found in " \o FormatF(total_observed, total_samples) \o " samples ("
        \o ToString(total_observed) \o " / " \o ToString(total_samples) \o ")"

-----------------------------------------------------------------------------
(* scipy.stats.binom.cdf(k, n, p) for a rational p: P[X <= k], X ~ Binomial(n, p) *)

RECURSIVE BinomSum(_, _, _)
BinomSum(k, n, p) ==
    IF k < 0 THEN 0
    ELSE LET j == IF k > n THEN n ELSE k
         IN  Choose(n, j) * Pow(p.num, j) * Pow(p.den - p.num, n - j) + BinomSum(j - 1, n, p)

binom_cdf(k, n, p) == Rat(BinomSum(k, n, p), Pow(p.den, n))

-----------------------------------------------------------------------------
(* sorted(list, key=operator.itemgetter(i), reverse=...): a stable sort *)

RECURSIVE InsertAsc(_, _, _)
InsertAsc(x, s, key) ==
    IF s = <<>> THEN <<x>>
    ELSE IF RatLT(x[key], Head(s)[key]) THEN <<x>> \o s
    ELSE <<Head(s)>> \o InsertAsc(x, Tail(s), key)

RECURSIVE InsertDesc(_, _, _)
InsertDesc(x, s, key) ==
    IF s = <<>> THEN <<x>>
    ELSE IF RatLT(Head(s)[key], x[key]) THEN <<x>> \o s
    ELSE <<Head(s)>> \o InsertDesc(x, Tail(s), key)

RECURSIVE SortedFrom(_, _, _, _)
SortedFrom(s, acc, key, reverse) ==
    IF s = <<>> THEN acc
    ELSE SortedFrom(Tail(s),
                    IF reverse THEN InsertDesc(Head(s), acc, key)
                               ELSE InsertAsc(Head(s), acc, key),
                    key, reverse)

RECURSIVE Reverse(_)
Reverse(s) == IF s = <<>> THEN <<>> ELSE Append(Reverse(Tail(s)), Head(s))

\* sorted() that ignores reverse=True
sorted_ascending(s, key, reverse) == SortedFrom(s, <<>>, key, FALSE)

\* sorted() that gets reverse=True by reversing an ascending sort, which reverses ties
sorted_by_reversal(s, key, reverse) ==
    IF reverse THEN Reverse(SortedFrom(s, <<>>, key, FALSE))
    ELSE SortedFrom(s, <<>>, key, FALSE)

\* key is the field operator.itemgetter selects: "cpval" is item 2, "cfrac" is item 1
sorted(s, key, reverse) == SortedFrom(s, <<>>, key, reverse)

-----------------------------------------------------------------------------
(* SpongeWorld.get_annotation_string *)

NoValue == <<"<no value returned>">>
Returned(value, kept) == [exc |-> NoExc, desc |-> value, keep |-> kept]
Raised(e) == [exc |-> e, desc |-> NoValue, keep |-> <<>>]

DefaultPval == Rat(1, 10)

\* null_pv = 1 - (total_observed / total_samples)
NullPv(total_observed, total_samples) == Rat(total_samples - total_observed, total_samples)

\* cfrac = observed_val_samples / total_val_samples
Cfrac(cdist) == Rat(cdist.observed_samples, cdist.total_samples)

\* the CDF evaluated at the observed count instead of the count of non-occurrences
CpvalAtObserved(cdist, null_pv) ==
    binom_cdf(cdist.observed_samples, cdist.total_samples, null_pv)

\* cpval = scipy.stats.binom.cdf(total_val_samples - observed_val_samples, total_val_samples, null_pv)
Cpval(cdist, null_pv) ==
    binom_cdf(cdist.total_samples - cdist.observed_samples, cdist.total_samples, null_pv)

\* the threshold test with < for <=
SignificantStrict(cpval, threshold) == RatLT(cpval, threshold)

\* if cpval <= pval
Significant(cpval, threshold) == RatLE(cpval, threshold)

\* the inner loop with a distribution of total_samples = 0 skipped instead of divided by
RECURSIVE ScanValuesSkipZero(_, _, _, _, _, _)
ScanValuesSkipZero(cfield, items, i, null_pv, threshold, acc) ==
    IF acc.exc # NoExc \/ i > Len(items) THEN acc
    ELSE LET cval == items[i][1]
             cdist == items[i][2]
         IN  IF cdist.total_samples = 0
             THEN ScanValuesSkipZero(cfield, items, i + 1, null_pv, threshold, acc)
             ELSE LET cpval == binom_cdf(cdist.total_samples - cdist.observed_samples,
                                         cdist.total_samples, null_pv)
                      kept == IF RatLE(cpval, threshold)
                              THEN Append(acc.keep,
                                          [cdesc |-> FormatDesc(cfield, cval,
                                                                cdist.observed_samples,
                                                                cdist.total_samples),
                                           cfrac |-> Rat(cdist.observed_samples,
                                                         cdist.total_samples),
                                           cpval |-> cpval])
                              ELSE acc.keep
                  IN  ScanValuesSkipZero(cfield, items, i + 1, null_pv, threshold,
                                         [acc EXCEPT !.keep = kept])

\* the body of the inner loop, over the items of info['info'][cfield], from item i on;
\* acc is the keep list so far, or the exception that ended the loop
RECURSIVE ScanValues(_, _, _, _, _, _)
ScanValues(cfield, items, i, null_pv, threshold, acc) ==
    IF acc.exc # NoExc \/ i > Len(items) THEN acc
    ELSE LET cval == items[i][1]
             cdist == items[i][2]
         IN  IF cdist.total_samples = 0 THEN Raised("ZeroDivisionError")
             ELSE LET cfrac == Cfrac(cdist)
                      cpval == Cpval(cdist, null_pv)
                      cdesc == FormatDesc(cfield, cval, cdist.observed_samples,
                                          cdist.total_samples)
                      kept == IF Significant(cpval, threshold)
                              THEN Append(acc.keep,
                                          [cdesc |-> cdesc, cfrac |-> cfrac, cpval |-> cpval])
                              ELSE acc.keep
                  IN  ScanValues(cfield, items, i + 1, null_pv, threshold,
                                 [acc EXCEPT !.keep = kept])

\* the outer loop, over info['info'].keys(), from field f on
RECURSIVE ScanFields(_, _, _, _, _)
ScanFields(fields, f, null_pv, threshold, acc) ==
    IF acc.exc # NoExc \/ f > Len(fields) THEN acc
    ELSE ScanFields(fields, f + 1, null_pv, threshold,
                    ScanValues(fields[f][1], fields[f][2], 1, null_pv, threshold, acc))

\* desc = [ckeep[0] for ckeep in keep]
DescOf(kept) == [i \in 1..Len(kept) |-> kept[i].cdesc]

get_annotation_string(payload, threshold) ==
    IF "total_observed" \notin DOMAIN payload THEN Raised("KeyError")
    ELSE LET total_observed == payload.total_observed
         IN  IF total_observed = PyInt(0) THEN Returned(<<>>, <<>>)
             ELSE IF total_observed = PyNone THEN Returned(<<>>, <<>>)
             ELSE LET total_samples == payload.total_samples
                  IN  IF total_samples = 0 THEN Raised("ZeroDivisionError")
                      ELSE LET null_pv == NullPv(total_observed.val, total_samples)
                               scanned == ScanFields(payload.info, 1, null_pv, threshold,
                                                     Returned(<<>>, <<>>))
                               by_pval == sorted(scanned.keep, "cpval", FALSE)
                               by_frac == sorted(by_pval, "cfrac", TRUE)
                           IN  IF scanned.exc # NoExc THEN scanned
                               ELSE Returned(<<FormatHeader(total_observed.val, total_samples)>>
                                                 \o DescOf(by_frac),
                                             by_frac)

-----------------------------------------------------------------------------
(* The payloads and thresholds the scoring routine is applied to *)

\* the distributions of a database of total_samples samples: a distribution counts
\* some of the database's samples, and those among them that hold the sequence
Dists(total_samples) ==
    UNION {{[total_samples |-> n, observed_samples |-> o] : o \in 0..n} :
           n \in 0..total_samples}

FieldName(f) == "field" \o ToString(f)
ValueName(v) == "val" \o ToString(v)

\* the nested dict whose iteration yields the distributions of flat in order, a new
\* field starting at every position of breaks
FieldStart(breaks, f) ==
    IF f = 1 THEN 1
    ELSE CHOOSE b \in breaks : Cardinality({c \in breaks : c < b}) = f - 2

FieldEnd(breaks, f, m) ==
    IF f = Cardinality(breaks) + 1 THEN m ELSE FieldStart(breaks, f + 1) - 1

Nested(flat, breaks) ==
    IF Len(flat) = 0 THEN <<>>
    ELSE [f \in 1..(Cardinality(breaks) + 1) |->
            <<FieldName(f),
              [v \in 1..(FieldEnd(breaks, f, Len(flat)) - FieldStart(breaks, f) + 1) |->
                  <<ValueName(v), flat[FieldStart(breaks, f) + v - 1]>>]>>]

Absent == [type |-> "absent"]

TotalObservedChoices(total_samples) ==
    {Absent, PyNone}
        \cup {PyInt(n) : n \in 0..(IF total_samples = 0 THEN MaxTotal ELSE total_samples)}

Payload(total_observed, total_samples, nested) ==
    IF total_observed = Absent
    THEN [total_samples |-> total_samples, info |-> nested]
    ELSE [total_observed |-> total_observed, total_samples |-> total_samples, info |-> nested]

Pvals == {DefaultPval, Rat(1, 2)}

-----------------------------------------------------------------------------
(* The scoring routine applied to one payload *)

DefaultSelf ==
    [constructed |-> TRUE,
     dburl |-> "http://amnonim.webfactional.com/spongeworld",
     web_interface |-> "http://amnonim.webfactional.com/spongeworld"]

ScoreInit ==
    /\ environ = Unset
    /\ self = DefaultSelf
    /\ pc = "call"
    /\ op = NoOp
    /\ \E m \in 0..MaxPairs, ts \in 0..MaxTotal :
          \E flat \in [1..m -> Dists(ts)], breaks \in SUBSET (2..m),
             tobs \in TotalObservedChoices(ts) :
              info = Payload(tobs, ts, Nested(flat, breaks))
    /\ pval \in Pvals
    /\ keep = <<>>
    /\ desc = NoValue
    /\ exc = NoExc
    /\ http = NoHttp
    /\ browser = NoBrowser

GetAnnotationString ==
    /\ pc = "call"
    /\ \E out \in {get_annotation_string(info, pval)} :
           /\ keep' = out.keep
           /\ desc' = out.desc
           /\ exc' = out.exc
           /\ pc' = IF out.exc = NoExc THEN "returned" ELSE "raised"
    /\ op' = "get_annotation_string"
    /\ UNCHANGED <<environ, self, info, pval, http, browser>>

ScoreNext == GetAnnotationString

ScoreSpec == ScoreInit /\ [][ScoreNext]_vars

-----------------------------------------------------------------------------
(* str.lower(), str.upper() and ''.join over sequences of characters *)

UpperCase == <<"A", "B", "C", "D", "E", "F", "G", "H", "I", "J", "K", "L", "M",
               "N", "O", "P", "Q", "R", "S", "T", "U", "V", "W", "X", "Y", "Z">>
LowerCase == <<"a", "b", "c", "d", "e", "f", "g", "h", "i", "j", "k", "l", "m",
               "n", "o", "p", "q", "r", "s", "t", "u", "v", "w", "x", "y", "z">>

LowerChar(c) ==
    IF \E i \in 1..Len(UpperCase) : UpperCase[i] = c
    THEN LowerCase[CHOOSE i \in 1..Len(UpperCase) : UpperCase[i] = c]
    ELSE c

UpperChar(c) ==
    IF \E i \in 1..Len(LowerCase) : LowerCase[i] = c
    THEN UpperCase[CHOOSE i \in 1..Len(LowerCase) : LowerCase[i] = c]
    ELSE c

lower(s) == [i \in 1..Len(s) |-> LowerChar(s[i])]
upper(s) == [i \in 1..Len(s) |-> UpperChar(s[i])]

RECURSIVE Join(_)
Join(s) == IF Len(s) = 0 THEN "" ELSE Head(s) \o Join(Tail(s))

-----------------------------------------------------------------------------
(* SpongeWorld._get_db_address and SpongeWorld.__init__ *)

\* the values of SPONGEWORLD_SERVER_TYPE the process is started with
EnvValues ==
    {Unset,
     <<"l", "o", "c", "a", "l">>,
     <<"m", "a", "i", "n">>,
     <<"d", "e", "v", "e", "l", "o", "p">>,
     <<"M", "A", "I", "N">>,
     <<"L", "o", "c", "a", "l">>,
     <<"D", "e", "v", "e", "l", "o", "p">>,
     <<"p", "r", "o", "d">>,
     <<"m", "a", "i", "n", " ">>,
     <<>>}

Resolved(address) == [exc |-> NoExc, address |-> address]

\* the address resolution with an unknown tier falling back to the default server
get_db_address_fallback(env) ==
    IF env # Unset /\ Join(lower(env)) = "local"
    THEN [exc |-> NoExc, address |-> "http://127.0.0.1:5000"]
    ELSE IF env # Unset /\ Join(lower(env)) = "main"
    THEN [exc |-> NoExc, address |-> "http://amnonim.webfactional.com/spongeworld/"]
    ELSE IF env # Unset /\ Join(lower(env)) = "develop"
    THEN [exc |-> NoExc, address |-> "http://amnonim.webfactional.com/spongeworld_develop"]
    ELSE [exc |-> NoExc, address |-> "http://amnonim.webfactional.com/spongeworld"]

get_db_address(env) ==
    IF env # Unset
    THEN LET servertype == Join(lower(env))
         IN  IF servertype = "local" THEN Resolved("http://127.0.0.1:5000")
             ELSE IF servertype = "main"
                  THEN Resolved("http://amnonim.webfactional.com/spongeworld/")
             ELSE IF servertype = "develop"
                  THEN Resolved("http://amnonim.webfactional.com/spongeworld_develop")
             ELSE [exc |-> "ValueError", address |-> ""]
    ELSE Resolved("http://amnonim.webfactional.com/spongeworld")

\* SpongeWorld(): __init__ either raises or yields the object
Construct ==
    /\ pc = "new"
    /\ LET resolved == get_db_address(environ)
       IN  IF resolved.exc # NoExc
           THEN /\ pc' = "config_error"
                /\ exc' = resolved.exc
                /\ self' = NoObject
           ELSE /\ pc' = "ready"
                /\ exc' = NoExc
                /\ self' = [constructed |-> TRUE,
                            dburl |-> resolved.address,
                            web_interface |-> resolved.address]
    /\ op' = "__init__"
    /\ UNCHANGED <<environ, info, pval, keep, desc, http, browser>>

-----------------------------------------------------------------------------
(* The transport helpers and the operations of a constructed object *)

Statuses == {200, 404, 500}

\* requests.get / requests.post(self.dburl + '/' + api, json=rdata), and the warning
Request(method, api, rdata, status) ==
    [sent |-> TRUE,
     method |-> method,
     url |-> self.dburl \o "/" \o api,
     rdata |-> rdata,
     status |-> status,
     warned |-> status # 200,
     parsed |-> FALSE]

\* the sequences a caller asks about
QuerySequences == {<<"a", "c", "g", "t">>, <<"A", "C", "G", "T">>, <<"t", "A">>}

Entry(field, value, observed, total) ==
    <<field, <<<<value, [total_samples |-> total, observed_samples |-> observed]>>>>>>

\* the bodies the server answers a sequence/info request with
ServerPayloads ==
    {[total_samples |-> 3, info |-> <<>>],
     [total_observed |-> PyNone, total_samples |-> 3, info |-> <<>>],
     [total_observed |-> PyInt(0), total_samples |-> 3,
      info |-> <<Entry("host", "human", 0, 2)>>],
     [total_observed |-> PyInt(1), total_samples |-> 3,
      info |-> <<Entry("host", "human", 3, 3), Entry("country", "spain", 1, 2)>>],
     [total_observed |-> PyInt(1), total_samples |-> 3,
      info |-> <<Entry("host", "human", 3, 3), Entry("country", "spain", 0, 0)>>]}

\* self._post(api, rdata)
Post ==
    /\ pc = "ready"
    /\ \E status \in Statuses, sequence \in QuerySequences :
          http' = Request("POST", "sequence/info", Join(sequence), status)
    /\ op' = "_post"
    /\ info' = NoInfo
    /\ pval' = DefaultPval
    /\ keep' = <<>>
    /\ desc' = NoValue
    /\ exc' = NoExc
    /\ UNCHANGED <<environ, self, pc, browser>>

\* get_seq_annotations without its status check: the body is parsed whatever the status
get_seq_annotations_unchecked(sequence, status, body) ==
    [out |-> get_annotation_string(body, DefaultPval),
     res |-> [sent |-> TRUE, method |-> "GET",
              url |-> self.dburl \o "/" \o "sequence/info",
              rdata |-> Join(upper(sequence)), status |-> status,
              warned |-> status # 200, parsed |-> TRUE],
     scored |-> body]

\* the body of get_seq_annotations: the outcome, the exchange and the payload scored
get_seq_annotations(sequence, status, body) ==
    LET rdata == Join(upper(sequence))
        res == Request("GET", "sequence/info", rdata, status)
    IN  IF res.status # 200
        THEN [out |-> Returned(<<>>, <<>>), res |-> res, scored |-> NoInfo]
        ELSE [out |-> get_annotation_string(body, DefaultPval),
              res |-> [res EXCEPT !.parsed = TRUE],
              scored |-> body]

GetSeqAnnotations ==
    /\ pc = "ready"
    /\ \E sequence \in QuerySequences, status \in Statuses, body \in ServerPayloads :
          \E call \in {get_seq_annotations(sequence, status, body)} :
              /\ http' = call.res
              /\ info' = call.scored
              /\ keep' = call.out.keep
              /\ desc' = call.out.desc
              /\ exc' = call.out.exc
    /\ op' = "get_seq_annotations"
    /\ pval' = DefaultPval
    /\ UNCHANGED <<environ, self, pc, browser>>

\* shortdesc.append(({'annotationtype': 'other', 'sequence': sequence}, cann))
Wrap(sequence, annotations) ==
    [i \in 1..Len(annotations) |->
        <<[annotationtype |-> "other", sequence |-> Join(sequence)], annotations[i]>>]

GetSeqAnnotationStrings ==
    /\ pc = "ready"
    /\ \E sequence \in QuerySequences, status \in Statuses, body \in ServerPayloads :
          \E call \in {get_seq_annotations(sequence, status, body)} :
              /\ http' = call.res
              /\ info' = call.scored
              /\ keep' = call.out.keep
              /\ desc' = IF call.out.exc # NoExc THEN NoValue
                         ELSE Wrap(sequence, call.out.desc)
              /\ exc' = call.out.exc
    /\ op' = "get_seq_annotation_strings"
    /\ pval' = DefaultPval
    /\ UNCHANGED <<environ, self, pc, browser>>

\* address = '%s/search_results?sequence=%s' % (self.web_interface, annotation['sequence'])
ShowAnnotationInfo ==
    /\ pc = "ready"
    /\ \E sequence \in QuerySequences :
          browser' = self.web_interface \o "/search_results?sequence=" \o Join(sequence)
    /\ op' = "show_annotation_info"
    /\ desc' = NoValue
    /\ exc' = NoExc
    /\ UNCHANGED <<environ, self, pc, info, pval, keep, http>>

Init ==
    /\ environ \in EnvValues
    /\ self = NoObject
    /\ pc = "new"
    /\ op = NoOp
    /\ info = NoInfo
    /\ pval = DefaultPval
    /\ keep = <<>>
    /\ desc = NoValue
    /\ exc = NoExc
    /\ http = NoHttp
    /\ browser = NoBrowser

Next ==
    \/ Construct
    \/ Post
    \/ GetSeqAnnotations
    \/ GetSeqAnnotationStrings
    \/ ShowAnnotationInfo

Spec == Init /\ [][Next]_vars

-----------------------------------------------------------------------------
(* Vocabulary of the properties *)

\* the (field, value, distribution) triples of a payload, with their iteration index
Entries(payload) ==
    UNION {{[field |-> payload.info[f][1],
             value |-> payload.info[f][2][v][1],
             dist |-> payload.info[f][2][v][2],
             order |-> <<f, v>>] : v \in 1..Len(payload.info[f][2])} :
           f \in 1..Len(payload.info)}

\* total_observed is present, not None and not 0
Observed(payload) ==
    /\ "total_observed" \in DOMAIN payload
    /\ payload.total_observed.type = "int"
    /\ payload.total_observed.val # 0

Text(e) ==
    e.field \o ":" \o e.value \o " (" \o ToString(e.dist.observed_samples) \o "/"
        \o ToString(e.dist.total_samples) \o ")"

Rate(e) == Rat(e.dist.observed_samples, e.dist.total_samples)

\* the binomial CDF at total - observed, under the payload's null rate
PV(payload, e) ==
    binom_cdf(e.dist.total_samples - e.dist.observed_samples, e.dist.total_samples,
              Rat(payload.total_samples - payload.total_observed.val, payload.total_samples))

Passing(payload, threshold) == {e \in Entries(payload) : RatLE(PV(payload, e), threshold)}

Occurrences(s, x) == Cardinality({i \in 1..Len(s) : s[i] = x})
Position(s, x) == CHOOSE i \in 1..Len(s) : s[i] = x
Earlier(s, x, y) == Position(s, x) < Position(s, y)

IteratedBefore(a, b) ==
    \/ a.order[1] < b.order[1]
    \/ a.order[1] = b.order[1] /\ a.order[2] < b.order[2]

\* get_annotation_string returned a summary for an observed sequence
Summarised == pc = "returned" /\ Observed(info)

-----------------------------------------------------------------------------
(* C1: get_annotation_string returns the empty summary, raising nothing, for every
   payload whose total_observed is 0, is None or is absent, whatever the rest of
   the payload holds. *)
C1_UnobservedIsEmpty ==
    (pc # "call" /\ ~Observed(info)) => (exc = NoExc /\ desc = <<>>)

(* C2: in every summary, of two kept descriptors with different observed rates the
   one with the higher rate comes first, whatever their p-values and whatever the
   order of iteration. *)
C2_HigherRateFirst ==
    Summarised =>
        \A a, b \in Passing(info, pval) :
            RatLT(Rate(b), Rate(a)) => Earlier(desc, Text(a), Text(b))

C2_Witness ==
    /\ Summarised
    /\ \E a, b \in Passing(info, pval) :
          /\ RatLT(Rate(b), Rate(a))
          /\ RatLT(PV(info, b), PV(info, a))
          /\ IteratedBefore(b, a)
          /\ Earlier(desc, Text(a), Text(b))

(* C3: for an observed sequence a (field, value) descriptor is in the summary if and
   only if its p-value is <= pval (equality keeps it), and a kept pair appears
   exactly once. *)
C3_KeptIffWithinThreshold ==
    Summarised =>
        \A e \in Entries(info) :
            Occurrences(desc, Text(e)) = IF RatLE(PV(info, e), pval) THEN 1 ELSE 0

C3_Witness ==
    /\ Summarised
    /\ \E e, d \in Entries(info) :
          /\ RatEQ(PV(info, e), pval)
          /\ Occurrences(desc, Text(e)) = 1
          /\ RatLT(pval, PV(info, d))
          /\ Occurrences(desc, Text(d)) = 0

(* C4: a non-empty summary starts with the header built from exactly the payload's
   total_observed and total_samples, also when no descriptor passes; its length is
   1 + the number of kept descriptors. *)
C4_HeaderFirst ==
    (pc = "returned" /\ desc # <<>>) =>
        /\ Observed(info)
        /\ desc[1] = "Found in " \o FormatF(info.total_observed.val, info.total_samples)
                        \o " samples (" \o ToString(info.total_observed.val) \o " / "
                        \o ToString(info.total_samples) \o ")"
        /\ Len(desc) = 1 + Cardinality(Passing(info, pval))

C4_Witness ==
    /\ Summarised
    /\ Entries(info) # {}
    /\ Passing(info, pval) = {}
    /\ Len(desc) = 1
    /\ info.total_observed.val # info.total_samples

(* C5: when the sequence/info request comes back with a status other than 200,
   get_seq_annotations returns the empty summary and raises nothing, the body is not
   parsed and the scoring routine is not invoked; get_seq_annotation_strings then
   returns an empty list. *)
C5_FailedRequestIsEmpty ==
    (op \in {"get_seq_annotations", "get_seq_annotation_strings"} /\ http.status # 200) =>
        /\ desc = <<>>
        /\ exc = NoExc
        /\ ~http.parsed
        /\ info = NoInfo
        /\ keep = <<>>

C5_Witness ==
    /\ op = "get_seq_annotation_strings"
    /\ http.status = 500
    /\ http.warned
    /\ desc = <<>>

\* the server-tier variable is set to something other than local, main or develop
Unrecognised(env) ==
    /\ env # Unset
    /\ Join(lower(env)) \notin {"local", "main", "develop"}

(* C6: with the server-tier variable set to anything but local, main or develop
   (case-insensitively), construction fails with a configuration error: no object
   with a base URL exists, and no request or browser launch ever happens. *)
C6_UnknownTierIsFatal ==
    Unrecognised(environ) =>
        /\ self = NoObject
        /\ http = NoHttp
        /\ browser = NoBrowser
        /\ pc \in {"new", "config_error"}
        /\ (pc = "config_error" => exc = "ValueError")

C6_Witness ==
    /\ Unrecognised(environ)
    /\ pc = "config_error"
    /\ exc = "ValueError"

(* C7: the default tier is main: the base URL resolved with the variable set to
   "main" is the base URL resolved with the variable unset, and so are the request
   URLs and the browser URL built from it. *)
C7_DefaultIsMain ==
    (environ # Unset /\ Join(lower(environ)) = "main" /\ self # NoObject) =>
        /\ self.dburl = get_db_address(Unset).address
        /\ (http # NoHttp => http.url = get_db_address(Unset).address \o "/sequence/info")

(* C8: for fixed database totals and a fixed distribution total n, the p-value never
   increases when observed_samples increases within 0..n; a descriptor kept at one
   observed count is kept at every higher one. *)
C8_MonotoneInObserved ==
    Summarised =>
        /\ \A n \in 1..MaxTotal, o \in 0..MaxTotal :
              o < n =>
                  RatLE(Cpval([total_samples |-> n, observed_samples |-> o + 1],
                              NullPv(info.total_observed.val, info.total_samples)),
                        Cpval([total_samples |-> n, observed_samples |-> o],
                              NullPv(info.total_observed.val, info.total_samples)))
        /\ \A a, b \in Entries(info) :
              (/\ a.dist.total_samples = b.dist.total_samples
               /\ a.dist.observed_samples <= b.dist.observed_samples
               /\ Occurrences(desc, Text(a)) = 1) => Occurrences(desc, Text(b)) = 1

C8_Witness ==
    /\ Summarised
    /\ \E a, b \in Entries(info) :
          /\ a.dist.total_samples = b.dist.total_samples
          /\ a.dist.observed_samples < b.dist.observed_samples
          /\ RatLT(PV(info, b), PV(info, a))
          /\ Occurrences(desc, Text(a)) = 1
          /\ Occurrences(desc, Text(b)) = 1

\* some division of the scoring routine has a zero denominator
ZeroTotal(payload) ==
    \/ payload.total_samples = 0
    \/ \E e \in Entries(payload) : e.dist.total_samples = 0

(* C9: for an observed sequence whose payload has a distribution with
   total_samples = 0, or a database total_samples of 0, the call ends in an error
   and returns nothing: no ratio from a division by zero, no partial summary. *)
C9_ZeroTotalRaises ==
    (pc # "call" /\ Observed(info) /\ ZeroTotal(info)) =>
        /\ pc = "raised"
        /\ exc = "ZeroDivisionError"
        /\ desc = NoValue

C9_Witness ==
    /\ pc = "raised"
    /\ exc = "ZeroDivisionError"
    /\ desc = NoValue
    /\ info.total_samples # 0
    /\ \E a, b \in Entries(info) :
          /\ IteratedBefore(a, b)
          /\ a.dist.total_samples # 0
          /\ RatLE(PV(info, a), pval)
          /\ b.dist.total_samples = 0

\* the composite key: observed rate descending, p-value ascending, iteration index ascending
CompositeBefore(payload, a, b) ==
    \/ RatLT(Rate(b), Rate(a))
    \/ RatEQ(Rate(a), Rate(b)) /\ RatLT(PV(payload, a), PV(payload, b))
    \/ RatEQ(Rate(a), Rate(b)) /\ RatEQ(PV(payload, a), PV(payload, b)) /\ IteratedBefore(a, b)

(* C10: among kept descriptors of equal observed rate the smaller p-value comes
   first, and descriptors equal in both keep their iteration order: the summary is
   ordered as by one sort on (rate descending, p-value ascending, iteration index). *)
C10_TieBreak ==
    Summarised =>
        \A a, b \in Passing(info, pval) :
            CompositeBefore(info, a, b) => Earlier(desc, Text(a), Text(b))

C10_Witness ==
    /\ Summarised
    /\ \E a, b \in Passing(info, pval) :
          /\ RatEQ(Rate(a), Rate(b))
          /\ RatLT(PV(info, a), PV(info, b))
          /\ IteratedBefore(b, a)
          /\ Earlier(desc, Text(a), Text(b))

====
